---------------------------- MODULE Spec2Model ----------------------------
(***************************************************************************)
(* A model of src/src/index.ts (class GoogleToken): the token lifecycle of *)
(* one agent, with its single-flight handle, credential loading, token     *)
(* exchange, expiry predicates and revocation.                             *)
(*                                                                         *)
(* JavaScript runs the agent on one thread: an async function runs until   *)
(* its first await on I/O, and the continuations of a settled promise run  *)
(* as microtasks before the next I/O callback.  An action of this model is *)
(* therefore one such run-to-completion step.  A promise that settles      *)
(* without I/O (the cached-token return, a synchronous throw) is delivered *)
(* by microtasks only: other synchronous calls can still be made before    *)
(* it is delivered, but no I/O completion can (phase "micro").             *)
(*                                                                         *)
(* An optional JavaScript value is a sequence: << >> is undefined and      *)
(* <<v>> is the value v.                                                   *)
(***************************************************************************)
EXTENDS Integers, Sequences, FiniteSets, TLC

\* ----------------------------------------------------------------- bounds
\* getToken calls made over a behaviour (call ids 1..MaxCalls).
MaxCalls == 3
\* revokeToken calls made over a behaviour.
MaxRevokes == 1
\* Seconds that the clock may advance.
MaxTicks == 1

\* ------------------------------------------------------ optional values
Undefined == << >>

Some(v) == <<v>>

\* JavaScript truthiness of an optional string.
Truthy(x) == x # Undefined /\ x[1] # ""

\* JavaScript truthiness of an optional number.
TruthyNum(x) == x # Undefined /\ x[1] # 0

\* JavaScript a || b on optional strings.
OrElse(a, b) == IF Truthy(a) THEN a ELSE b

\* JavaScript a ?? b on optional numbers.
Coalesce(a, b) == IF a # Undefined THEN a[1] ELSE b

\* ------------------------------------------------------------- variables
VARIABLES
    \* fields of GoogleToken
    expiresAt, key, keyFile, iss, sub, scope, rawToken, tokenExpires,
    additionalClaims, eagerRefreshThresholdMillis, inFlightRequest,
    \* the environment
    now,       \* new Date().getTime(), in milliseconds
    ops,       \* ops[c]: the promise of the getTokenAsyncInner run call c began
    calls,     \* calls[c]: the promise getToken call c returned
    revokes,   \* revokes[r]: the promise revokeToken call r returned
    last,      \* history: the last exchange or revocation that completed
    query      \* the last answer of hasExpired() / isTokenExpiring()

cfgVars == <<key, keyFile, iss, sub, scope, additionalClaims,
             eagerRefreshThresholdMillis>>

tokVars == <<rawToken, expiresAt, tokenExpires>>

agentVars == <<cfgVars, tokVars, inFlightRequest>>

vars == <<agentVars, now, ops, calls, revokes, last, query>>

CallIds == 1..MaxCalls

RevokeIds == 1..MaxRevokes

\* --------------------------------------------------------- the file system
\* A key file path is <<stem, extension>>; path.extname is its extension.
extname(f) == f[2]

\* The files on disk: what readFile and JSON.parse yield for each path.
\* [readable, private_key, client_email]: the text of a key file is its
\* private_key, the members of a JSON file are private_key and client_email.
FileContent(f) ==
    CASE f = <<"sa", ".json">>     -> [readable |-> TRUE, private_key |-> Some("K-json"),
                                       client_email |-> Some("svc@file")]
      [] f = <<"nomail", ".json">> -> [readable |-> TRUE, private_key |-> Some("K-json"),
                                       client_email |-> Undefined]
      [] f = <<"nokey", ".json">>  -> [readable |-> TRUE, private_key |-> Undefined,
                                       client_email |-> Some("svc@file")]
      [] f = <<"empty", ".json">>  -> [readable |-> TRUE, private_key |-> Some(""),
                                       client_email |-> Some("svc@file")]
      [] f = <<"blank", ".json">>  -> [readable |-> TRUE, private_key |-> Some("K-json"),
                                       client_email |-> Some("")]
      [] f = <<"sa", ".JSON">>     -> [readable |-> TRUE, private_key |-> Some("K-json"),
                                       client_email |-> Some("svc@file")]
      [] f = <<"key", ".pem">>     -> [readable |-> TRUE, private_key |-> Some("K-pem"),
                                       client_email |-> Undefined]
      [] f = <<"key", ".crt">>     -> [readable |-> TRUE, private_key |-> Some("K-crt"),
                                       client_email |-> Undefined]
      [] f = <<"key", ".der">>     -> [readable |-> TRUE, private_key |-> Some("K-der"),
                                       client_email |-> Undefined]
      [] f = <<"key", ".p12">>     -> [readable |-> TRUE, private_key |-> Some("PKCS12"),
                                       client_email |-> Undefined]
      [] f = <<"key", ".pfx">>     -> [readable |-> TRUE, private_key |-> Some("PKCS12"),
                                       client_email |-> Undefined]
      [] f = <<"key", ".xyz">>     -> [readable |-> TRUE, private_key |-> Some("K-xyz"),
                                       client_email |-> Undefined]
      [] f = <<"key", "">>         -> [readable |-> TRUE, private_key |-> Some("K-bare"),
                                       client_email |-> Undefined]
      [] OTHER                     -> [readable |-> FALSE, private_key |-> Undefined,
                                       client_email |-> Undefined]

\* The converter of google-p12-pem: the PEM key of a PKCS#12 file.
getPem(f) ==
    IF FileContent(f).private_key = Some("PKCS12")
    THEN Some("K-p12:" \o f[1] \o f[2])
    ELSE Undefined

\* ---------------------------------------------------------------- errors
ErrorWithCode(message, code) ==
    [message |-> message, code |-> code, response |-> Undefined]

Error(message) == [message |-> message, code |-> "", response |-> Undefined]

\* The error a failed request throws: response is undefined (no answer came)
\* or holds the answer, whose data is undefined or the body the server sent.
GaxiosError(message, response) ==
    [message |-> message, code |-> "", response |-> response]

\* A structured body of a failure response.
Body(error, error_description) ==
    [error |-> error, error_description |-> error_description]

\* A settled promise: resolved with (a reference to) the token record v, or
\* rejected with an error.  v.id is the identity of the object.
Resolved(v) == [ok |-> TRUE, val |-> Some(v.id), err |-> Error("")]

Rejected(e) == [ok |-> FALSE, val |-> Undefined, err |-> e]

NoResult == [ok |-> FALSE, val |-> Undefined, err |-> Error("")]

\* ---------------------------------------------------- TokenOptions / configure
NoOptions ==
    [keyFile |-> Undefined, key |-> Undefined, email |-> Undefined, iss |-> Undefined,
     sub |-> Undefined, scope |-> Undefined, additionalClaims |-> Undefined,
     eagerRefreshThresholdMillis |-> Undefined]

\* Array.prototype.join(' ') on a sequence of strings.
RECURSIVE join(_)
join(a) ==
    IF a = << >> THEN ""
    ELSE IF Len(a) = 1 THEN a[1]
    ELSE a[1] \o " " \o join(Tail(a))

\* options.scope is [list |-> TRUE, v |-> <<"a","b">>] or [list |-> FALSE, v |-> "a"].
ScopeOf(s) ==
    IF s = Undefined THEN Undefined
    ELSE IF s[1].list THEN Some(join(s[1].v))
    ELSE Some(s[1].v)

\* The constructor options the model draws the agent from.
OptionSet ==
    { [NoOptions EXCEPT !.key = Some("K-direct"), !.email = Some("svc@cfg"),
                        !.sub = Some("user"),
                        !.scope = Some([list |-> TRUE, v |-> <<"s1", "s2">>]),
                        !.additionalClaims = Some([foo |-> "bar"])],
      [NoOptions EXCEPT !.key = Some("K-direct"), !.iss = Some("svc@cfg"),
                        !.scope = Some([list |-> FALSE, v |-> "s1"]),
                        !.eagerRefreshThresholdMillis = Some(1000)],
      NoOptions,
      [NoOptions EXCEPT !.keyFile = Some(<<"sa", ".json">>)],
      [NoOptions EXCEPT !.keyFile = Some(<<"key", ".pem">>)],
      [NoOptions EXCEPT !.keyFile = Some(<<"key", ".xyz">>), !.iss = Some("svc@cfg")] }

\* configure(options): the values it assigns to the fields (it assigns neither
\* expiresAt, tokenExpires nor inFlightRequest).
configure(options) ==
    [keyFile |-> options.keyFile,
     key |-> options.key,
     rawToken |-> Undefined,
     iss |-> OrElse(options.email, options.iss),
     sub |-> options.sub,
     additionalClaims |-> options.additionalClaims,
     scope |-> ScopeOf(options.scope),
     eagerRefreshThresholdMillis |-> options.eagerRefreshThresholdMillis]

\* ------------------------------------------------------------ accessors
\* get accessToken()
accessToken == IF rawToken # Undefined THEN rawToken[1].access_token ELSE Undefined

\* hasExpired()
hasExpired ==
    IF rawToken # Undefined /\ TruthyNum(expiresAt)
    THEN now >= expiresAt[1]
    ELSE TRUE

\* isTokenExpiring() with < for <=: a token at the exact threshold counts as fresh.
isTokenExpiring_Strict ==
    IF rawToken # Undefined /\ TruthyNum(expiresAt)
    THEN expiresAt[1] < now + Coalesce(eagerRefreshThresholdMillis, 0)
    ELSE TRUE

\* isTokenExpiring()
isTokenExpiring ==
    IF rawToken # Undefined /\ TruthyNum(expiresAt)
    THEN expiresAt[1] <= now + Coalesce(eagerRefreshThresholdMillis, 0)
    ELSE TRUE

\* ------------------------------------------------------------ promises
\* ops[c].iat is the local iat of requestToken while it awaits the endpoint.
\* ops[c].phase: "none" (call c began no run), "micro" (settled without I/O,
\* not yet delivered), "creds" (awaiting the key file), "request" (awaiting
\* the token endpoint), "done".
\* ops[c].payload is the payload of the assertion it has sent, while it awaits.
NoOp == [phase |-> "none", iat |-> 0, payload |-> Undefined, file |-> Undefined,
         loaded |-> FALSE, issued |-> FALSE, out |-> NoResult]

NoCall == [state |-> "idle", force |-> FALSE, op |-> 0, seen |-> {},
           cached |-> Undefined, res |-> NoResult]

\* revokes[r].cfg is history: the configuration when revokeToken was called.
NoRevoke == [state |-> "idle", sent |-> FALSE, url |-> "", cfg |-> << >>,
             err |-> Error("")]

Pending(o) == ops[o].phase \in {"micro", "creds", "request"}

MicroPending == \E o \in CallIds : ops[o].phase = "micro"

\* Token exchanges and key-file loads issued so far.
NumExchanges == Cardinality({o \in CallIds : ops[o].issued})

NumLoads == Cardinality({o \in CallIds : ops[o].loaded})

NumRevokeRequests == Cardinality({r \in RevokeIds : revokes[r].sent})

\* ------------------------------------------------------------------ Init
\* The state after new GoogleToken(options).
Constructed(options) ==
    /\ LET c == configure(options) IN
         /\ keyFile = c.keyFile
         /\ key = c.key
         /\ rawToken = c.rawToken
         /\ iss = c.iss
         /\ sub = c.sub
         /\ additionalClaims = c.additionalClaims
         /\ scope = c.scope
         /\ eagerRefreshThresholdMillis = c.eagerRefreshThresholdMillis
    /\ expiresAt = Undefined
    /\ tokenExpires = Undefined
    /\ inFlightRequest = Undefined
    /\ now = 1500
    /\ ops = [c \in CallIds |-> NoOp]
    /\ calls = [c \in CallIds |-> NoCall]
    /\ revokes = [r \in RevokeIds |-> NoRevoke]
    /\ last = "none"
    /\ query = [fn |-> "none", ret |-> FALSE]

Init == \E options \in OptionSet : Constructed(options)

\* ------------------------------------------------------------ getCredentials
\* The switch on path.extname(keyFile) without the case '.crt'.
CredentialKind_NoCrt(ext) ==
    CASE ext = ".json" -> "json"
      [] ext \in {".der", ".pem"} -> "pem"
      [] ext \in {".p12", ".pfx"} -> "p12"
      [] OTHER -> "unknown"

\* The switch on path.extname(keyFile).
CredentialKind(ext) ==
    CASE ext = ".json" -> "json"
      [] ext \in {".der", ".crt", ".pem"} -> "pem"
      [] ext \in {".p12", ".pfx"} -> "p12"
      [] OTHER -> "unknown"

NoCredentials == [privateKey |-> Undefined, clientEmail |-> Undefined]

\* What the promise of getCredentials(f) settles to:
\* [ok, creds |-> [privateKey, clientEmail], err], and via, what it read the
\* file with: "readFile", "getPem", or "none" when it threw before any read.
getCredentials(f) ==
    LET kind == CredentialKind(extname(f))
        body == FileContent(f)
        via  == CASE kind = "unknown" -> "none"
                  [] kind = "p12" -> "getPem"
                  [] OTHER -> "readFile"
    IN  IF kind = "unknown"
        THEN [ok |-> FALSE, creds |-> NoCredentials, via |-> via,
              err |-> ErrorWithCode("Unknown certificate type.", "UNKNOWN_CERTIFICATE_TYPE")]
        ELSE IF ~body.readable
        THEN [ok |-> FALSE, creds |-> NoCredentials, via |-> via,
              err |-> ErrorWithCode("ENOENT", "ENOENT")]
        ELSE IF kind = "json"
        THEN IF ~Truthy(body.private_key) \/ ~Truthy(body.client_email)
             THEN [ok |-> FALSE, creds |-> NoCredentials, via |-> via,
                   err |-> ErrorWithCode("private_key and client_email are required.",
                                         "MISSING_CREDENTIALS")]
             ELSE [ok |-> TRUE,
                   creds |-> [privateKey |-> body.private_key,
                              clientEmail |-> body.client_email],
                   via |-> via, err |-> Error("")]
        ELSE IF kind = "p12"
        THEN [ok |-> TRUE,
              creds |-> [privateKey |-> getPem(f), clientEmail |-> Undefined],
              via |-> via, err |-> Error("")]
        ELSE [ok |-> TRUE,
              creds |-> [privateKey |-> body.private_key, clientEmail |-> Undefined],
              via |-> via, err |-> Error("")]

\* getCredentials reads the file (or runs the converter) unless the extension
\* is unknown: then it throws before any read.
ReadsFile(f) == getCredentials(f).via # "none"

\* -------------------------------------------------------------- requestToken
\* iat = Math.floor(new Date().getTime() / 1000)
IssuedAt == now \div 1000

\* ExpiresAtOf counting from the clock at receipt instead of from iat.
ExpiresAtOf_FromNow(iat, data) ==
    IF data.expires_in = Undefined
    THEN Undefined
    ELSE Some(now + data.expires_in[1] * 1000)

\* expiresAt as requestToken sets it from iat and r.data.
ExpiresAtOf(iat, data) ==
    IF data.expires_in = Undefined
    THEN Undefined
    ELSE Some((iat + data.expires_in[1]) * 1000)

\* The responses r.data the token endpoint may give to the exchange of call c.
\* id stands for the identity of the response object.
Responses(c) ==
    { [id |-> c, access_token |-> Some("tok"), expires_in |-> e] :
          e \in {Undefined, Some(1), Some(2)} }
    \cup { [id |-> c, access_token |-> Undefined, expires_in |-> Some(1)] }

\* The errors a failed request to the token endpoint may throw.
Failures ==
    { GaxiosError("request failed", Undefined),
      GaxiosError("status 400",
                  Some([data |-> Some(Body(Some("invalid_grant"),
                                           Some("Invalid JWT")))])) }

GOOGLE_TOKEN_URL == "https://www.googleapis.com/oauth2/v4/token"

\* Object.assign(target, source) on objects as functions from property names.
Assign(target, source) ==
    [k \in DOMAIN target \cup DOMAIN source |->
        IF k \in DOMAIN source THEN source[k] ELSE target[k]]

\* The payload requestToken signs when this.iss = issuer and it takes iat = t.
PayloadOf(issuer, t) ==
    Assign([iss |-> issuer, scope |-> scope, aud |-> GOOGLE_TOKEN_URL,
            exp |-> t + 3600, iat |-> t, sub |-> sub],
           IF additionalClaims = Undefined THEN << >> ELSE additionalClaims[1])

Payload == PayloadOf(iss, IssuedAt)

\* requestToken() up to its await: the run is now awaiting the token endpoint.
requestTokenStart(op) ==
    [op EXCEPT !.phase = "request", !.iat = IssuedAt, !.payload = Some(Payload),
               !.issued = TRUE]

\* ------------------------------------------------------ getTokenAsyncInner
\* UseCached without the forceRefresh test: a forced call is served the cache.
UseCached_IgnoreForce(force) == isTokenExpiring = FALSE

\* UseCached that never serves the cache.
UseCached_Never(force) == FALSE

\* The first test of getTokenAsyncInner: return the cached record.
UseCached(force) == isTokenExpiring = FALSE /\ force = FALSE

\* getTokenAsyncInner(opts) up to its first suspension, as the state of its promise.
getTokenAsyncInner(force) ==
    IF UseCached(force)
    THEN [NoOp EXCEPT !.phase = "micro", !.out = Resolved(rawToken[1])]
    ELSE IF ~Truthy(key) /\ keyFile = Undefined
    THEN [NoOp EXCEPT !.phase = "micro",
                      !.out = Rejected(Error("No key or keyFile set."))]
    ELSE IF ~Truthy(key) /\ keyFile # Undefined
    THEN IF ReadsFile(keyFile[1])
         THEN [NoOp EXCEPT !.phase = "creds", !.file = keyFile, !.loaded = TRUE]
         ELSE [NoOp EXCEPT !.phase = "micro", !.file = keyFile,
                           !.out = Rejected(getCredentials(keyFile[1]).err)]
    ELSE requestTokenStart(NoOp)

\* ------------------------------------------------------------- getTokenAsync
\* JoinsInFlight without the single-flight test: every call begins its own run.
JoinsInFlight_Never(force) == FALSE

\* The first test of getTokenAsync: return the pending promise.
JoinsInFlight(force) == inFlightRequest # Undefined /\ ~force

\* Settle without the finally block: the handle stays as it is.
Settle_KeepHandle(o, out) ==
    /\ ops' = [ops EXCEPT ![o].phase = "done", ![o].iat = 0, ![o].payload = Undefined,
                           ![o].out = out]
    /\ UNCHANGED inFlightRequest
    /\ calls' = [c \in CallIds |->
                   IF calls[c].state = "pending" /\ calls[c].op = o
                   THEN [calls[c] EXCEPT !.state = IF out.ok THEN "resolved" ELSE "rejected",
                                         !.res = out]
                   ELSE calls[c]]

\* The promise of run o settles with out: the finally block of the call that
\* began it clears the handle, and every call awaiting it settles with out.
Settle(o, out) ==
    /\ ops' = [ops EXCEPT ![o].phase = "done", ![o].iat = 0, ![o].payload = Undefined,
                           ![o].out = out]
    /\ inFlightRequest' = Undefined
    /\ calls' = [c \in CallIds |->
                   IF calls[c].state = "pending" /\ calls[c].op = o
                   THEN [calls[c] EXCEPT !.state = IF out.ok THEN "resolved" ELSE "rejected",
                                         !.res = out]
                   ELSE calls[c]]

\* getToken({forceRefresh: force}), as call c.
GetToken(c, force) ==
    /\ calls[c].state = "idle"
    /\ \A d \in CallIds : d < c => calls[d].state # "idle"
    /\ LET seen == {d \in CallIds : calls[d].state = "pending"}
           cached == IF rawToken # Undefined /\ ~isTokenExpiring
                     THEN Some(rawToken[1].id) ELSE Undefined
           me == [NoCall EXCEPT !.state = "pending", !.force = force,
                                !.seen = seen, !.cached = cached]
       IN  IF JoinsInFlight(force)
           THEN /\ calls' = [calls EXCEPT ![c] = [me EXCEPT !.op = inFlightRequest[1]]]
                /\ UNCHANGED <<ops, inFlightRequest>>
           ELSE /\ calls' = [calls EXCEPT ![c] = [me EXCEPT !.op = c]]
                /\ ops' = [ops EXCEPT ![c] = getTokenAsyncInner(force)]
                /\ inFlightRequest' = Some(c)
    /\ UNCHANGED <<cfgVars, tokVars, now, revokes, last, query>>

\* The microtasks deliver a promise that settled without I/O.
Deliver(o) ==
    /\ ops[o].phase = "micro"
    /\ Settle(o, ops[o].out)
    /\ UNCHANGED <<cfgVars, tokVars, now, revokes, last, query>>

\* ensureEmail() that never throws.
ensureEmail_Never(issuer) == Undefined

\* ensureEmail() when this.iss = issuer: the error it throws, if it throws.
ensureEmail(issuer) ==
    IF ~Truthy(issuer)
    THEN Some(ErrorWithCode("email is required.", "MISSING_CREDENTIALS"))
    ELSE Undefined

\* The key file read of run o completes: getCredentials settles and
\* getTokenAsyncInner goes on to requestToken, or throws.
CredentialsLoaded(o) ==
    /\ ops[o].phase = "creds"
    /\ ~MicroPending
    /\ LET r == getCredentials(ops[o].file[1]) IN
         IF ~r.ok
         THEN /\ Settle(o, Rejected(r.err))
              /\ UNCHANGED <<key, iss>>
         ELSE /\ key' = r.creds.privateKey
              /\ iss' = OrElse(r.creds.clientEmail, iss)
              /\ IF ~Truthy(r.creds.clientEmail) /\ ensureEmail(iss') # Undefined
                 THEN Settle(o, Rejected(ensureEmail(iss')[1]))
                 ELSE /\ ops' = [ops EXCEPT ![o] =
                                   [requestTokenStart(ops[o]) EXCEPT
                                      !.payload = Some(PayloadOf(iss', IssuedAt))]]
                      /\ UNCHANGED <<calls, inFlightRequest>>
    /\ UNCHANGED <<keyFile, sub, scope, additionalClaims, eagerRefreshThresholdMillis,
                   tokVars, now, revokes, last, query>>

\* ExchangeSucceeds that keeps the record of a run begun later than o.
ExchangeSucceeds_LatestStartedWins(o, data) ==
    /\ ops[o].phase = "request"
    /\ ~MicroPending
    /\ LET later == rawToken # Undefined /\ rawToken[1].id > o IN
         /\ rawToken' = IF later THEN rawToken ELSE Some(data)
         /\ expiresAt' = IF later THEN expiresAt ELSE ExpiresAtOf(ops[o].iat, data)
    /\ Settle(o, Resolved(data))
    /\ last' = IF data.expires_in = Undefined THEN "ok_noexp" ELSE "ok_exp"
    /\ UNCHANGED <<cfgVars, tokenExpires, now, revokes, query>>

\* The token endpoint answers the exchange of run o with r.data = data.
ExchangeSucceeds(o, data) ==
    /\ ops[o].phase = "request"
    /\ ~MicroPending
    /\ rawToken' = Some(data)
    /\ expiresAt' = ExpiresAtOf(ops[o].iat, data)
    /\ Settle(o, Resolved(data))
    /\ last' = IF data.expires_in = Undefined THEN "ok_noexp" ELSE "ok_exp"
    /\ UNCHANGED <<cfgVars, tokenExpires, now, revokes, query>>

\* ExchangeFails with a catch block that keeps the cached record.
ExchangeFails_KeepToken(o, e) ==
    /\ ops[o].phase = "request"
    /\ ~MicroPending
    /\ tokenExpires' = Undefined
    /\ Settle(o, Rejected(e))
    /\ last' = "failed"
    /\ UNCHANGED <<cfgVars, rawToken, expiresAt, now, revokes, query>>

\* The body the catch block reads from the error: {} when there is none.
BodyOf(e) ==
    IF e.response # Undefined /\ e.response[1].data # Undefined
    THEN e.response[1].data[1]
    ELSE Body(Undefined, Undefined)

\* The catch block's rewrite that drops the description.
Rethrown_NoDescription(e) ==
    LET body == BodyOf(e) IN
    IF Truthy(body.error) THEN [e EXCEPT !.message = body.error[1]] ELSE e

\* The error the catch block rethrows: e, its message rewritten from the body.
Rethrown(e) ==
    LET body == BodyOf(e)
        desc == IF Truthy(body.error_description)
                THEN ": " \o body.error_description[1]
                ELSE ""
    IN  IF Truthy(body.error)
        THEN [e EXCEPT !.message = body.error[1] \o desc]
        ELSE e

\* The request of run o to the token endpoint throws e: the catch block.
ExchangeFails(o, e) ==
    /\ ops[o].phase = "request"
    /\ ~MicroPending
    /\ rawToken' = Undefined
    /\ tokenExpires' = Undefined
    /\ Settle(o, Rejected(Rethrown(e)))
    /\ last' = "failed"
    /\ UNCHANGED <<cfgVars, expiresAt, now, revokes, query>>

\* ------------------------------------------------------------- revokeToken
GOOGLE_REVOKE_TOKEN_URL == "https://accounts.google.com/o/oauth2/revoke?token="

\* revokeTokenAsync() up to its await, as call r.
RevokeToken(r) ==
    /\ revokes[r].state = "idle"
    /\ \A q \in RevokeIds : q < r => revokes[q].state # "idle"
    /\ IF ~Truthy(accessToken)
       THEN revokes' = [revokes EXCEPT ![r].state = "rejected",
                                       ![r].err = Error("No token to revoke.")]
       ELSE revokes' = [revokes EXCEPT ![r].state = "pending", ![r].sent = TRUE,
                                       ![r].url = GOOGLE_REVOKE_TOKEN_URL \o accessToken[1],
                                       ![r].cfg = <<iss, sub, key, keyFile, scope,
                                                    additionalClaims>>]
    /\ UNCHANGED <<agentVars, now, ops, calls, last, query>>

\* RevokeOptions without the key: the loaded key is lost on revoke.
RevokeOptions_DropKey ==
    [NoOptions EXCEPT !.email = iss, !.sub = sub, !.keyFile = keyFile,
                      !.scope = IF scope = Undefined THEN Undefined
                                ELSE Some([list |-> FALSE, v |-> scope[1]]),
                      !.additionalClaims = additionalClaims]

\* RevokeOptions that hands the configured threshold on to configure.
RevokeOptions_KeepThreshold ==
    [NoOptions EXCEPT !.email = iss, !.sub = sub, !.key = key, !.keyFile = keyFile,
                      !.scope = IF scope = Undefined THEN Undefined
                                ELSE Some([list |-> FALSE, v |-> scope[1]]),
                      !.additionalClaims = additionalClaims,
                      !.eagerRefreshThresholdMillis = eagerRefreshThresholdMillis]

\* The options revokeTokenAsync passes to configure.
RevokeOptions ==
    [NoOptions EXCEPT !.email = iss, !.sub = sub, !.key = key, !.keyFile = keyFile,
                      !.scope = IF scope = Undefined THEN Undefined
                                ELSE Some([list |-> FALSE, v |-> scope[1]]),
                      !.additionalClaims = additionalClaims]

\* The revocation endpoint answers: revokeTokenAsync calls configure.
RevokeSucceeds(r) ==
    /\ revokes[r].state = "pending"
    /\ ~MicroPending
    /\ LET c == configure(RevokeOptions) IN
         /\ keyFile' = c.keyFile
         /\ key' = c.key
         /\ rawToken' = c.rawToken
         /\ iss' = c.iss
         /\ sub' = c.sub
         /\ additionalClaims' = c.additionalClaims
         /\ scope' = c.scope
         /\ eagerRefreshThresholdMillis' = c.eagerRefreshThresholdMillis
    /\ revokes' = [revokes EXCEPT ![r].state = "resolved"]
    /\ last' = "revoked"
    /\ UNCHANGED <<expiresAt, tokenExpires, inFlightRequest, now, ops, calls, query>>

\* RevokeFails that drops the cached record although the revocation failed.
RevokeFails_DropToken(r) ==
    /\ revokes[r].state = "pending"
    /\ ~MicroPending
    /\ revokes' = [revokes EXCEPT ![r].state = "rejected",
                                  ![r].err = Error("request failed")]
    /\ rawToken' = Undefined
    /\ UNCHANGED <<cfgVars, expiresAt, tokenExpires, inFlightRequest, now, ops, calls,
                   last, query>>

\* The request to the revocation endpoint throws: the error propagates.
RevokeFails(r) ==
    /\ revokes[r].state = "pending"
    /\ ~MicroPending
    /\ revokes' = [revokes EXCEPT ![r].state = "rejected",
                                  ![r].err = Error("request failed")]
    /\ UNCHANGED <<agentVars, now, ops, calls, last, query>>

\* ------------------------------------------------------------------ clock
\* A second passes.
Tick ==
    /\ ~MicroPending
    /\ now < 1500 + 1000 * MaxTicks
    /\ now' = now + 1000
    /\ UNCHANGED <<agentVars, ops, calls, revokes, last, query>>

\* ------------------------------------------------------------------- Spec
Next ==
    \/ \E c \in CallIds, force \in BOOLEAN : GetToken(c, force)
    \/ \E o \in CallIds : Deliver(o)
    \/ \E o \in CallIds : CredentialsLoaded(o)
    \/ \E o \in CallIds : \E data \in Responses(o) : ExchangeSucceeds(o, data)
    \/ \E o \in CallIds : \E e \in Failures : ExchangeFails(o, e)
    \/ \E r \in RevokeIds : RevokeToken(r)
    \/ \E r \in RevokeIds : RevokeSucceeds(r)
    \/ \E r \in RevokeIds : RevokeFails(r)
    \/ Tick

Spec == Init /\ [][Next]_vars


\* ------------------------------------------------- the expiry predicates
\* A caller asks hasExpired().
HasExpiredCall ==
    /\ query' = [fn |-> "hasExpired", ret |-> hasExpired]
    /\ UNCHANGED <<agentVars, now, ops, calls, revokes, last>>

\* A caller asks isTokenExpiring().
IsTokenExpiringCall ==
    /\ query' = [fn |-> "isTokenExpiring", ret |-> isTokenExpiring]
    /\ UNCHANGED <<agentVars, now, ops, calls, revokes, last>>

\* The agents the expiry predicates are asked of: every combination of a
\* cached record or none, an expiry or none (a failed exchange leaves the
\* expiry of the record it drops) and a threshold or none.
InitExpiry ==
    /\ rawToken \in {Undefined} \cup {Some(d) : d \in Responses(1)}
    /\ expiresAt \in {Undefined, Some(1000), Some(2000), Some(2500), Some(3000)}
    /\ eagerRefreshThresholdMillis \in {Undefined, Some(0), Some(500), Some(1000)}
    /\ key = Some("K-direct")
    /\ keyFile = Undefined
    /\ iss = Some("svc@cfg")
    /\ sub = Undefined
    /\ scope = Undefined
    /\ additionalClaims = Undefined
    /\ tokenExpires = Undefined
    /\ inFlightRequest = Undefined
    /\ now = 1500
    /\ ops = [c \in CallIds |-> NoOp]
    /\ calls = [c \in CallIds |-> NoCall]
    /\ revokes = [r \in RevokeIds |-> NoRevoke]
    /\ last = "none"
    /\ query = [fn |-> "none", ret |-> FALSE]

NextExpiry ==
    \/ HasExpiredCall
    \/ IsTokenExpiringCall
    \/ Tick

SpecExpiry == InitExpiry /\ [][NextExpiry]_vars


\* ------------------------------------------------------- the assertion
\* The agents the assertion payload is built for: a key given directly, and
\* every combination of an issuer, a subject, a scope and additional claims,
\* among them claims named like the fixed fields.
AssertionOptionSet ==
    { [NoOptions EXCEPT !.key = Some("K-direct"), !.email = e, !.sub = u,
                        !.scope = sc, !.additionalClaims = ac] :
        e \in {Undefined, Some("svc@cfg")},
        u \in {Undefined, Some("user")},
        sc \in {Undefined, Some([list |-> TRUE, v |-> <<"s1", "s2">>])},
        ac \in {Undefined, Some([foo |-> "bar"]),
                Some([iss |-> Some("other@cfg"), foo |-> "bar"]),
                Some([sub |-> Some("admin")]),
                Some([scope |-> Some("s9")]),
                Some([aud |-> "https://elsewhere"]),
                Some([exp |-> 99999, iat |-> 7])} }

InitAssertion == \E options \in AssertionOptionSet : Constructed(options)

\* requestToken builds the payload of its assertion.
BuildAssertion ==
    /\ query' = [fn |-> "payload", ret |-> Payload]
    /\ UNCHANGED <<agentVars, now, ops, calls, revokes, last>>

NextAssertion ==
    \/ BuildAssertion
    \/ Tick

SpecAssertion == InitAssertion /\ [][NextAssertion]_vars

\* ------------------------------------------------------ the catch block
\* The errors a request to the token endpoint throws: without a response, with
\* a response without a body, and with every body of a missing, an empty or a
\* set error and error_description.
ThrownErrors ==
    { GaxiosError("request failed", r) :
        r \in {Undefined, Some([data |-> Undefined])}
              \cup { Some([data |-> Some(Body(er, d))]) :
                       er \in {Undefined, Some(""), Some("invalid_grant")},
                       d \in {Undefined, Some(""), Some("Invalid JWT")} } }

\* The catch block of requestToken handles e: the cached record is cleared and
\* the error is rethrown.
CatchRequestError ==
    \E e \in ThrownErrors :
        /\ rawToken' = Undefined
        /\ tokenExpires' = Undefined
        /\ query' = [fn |-> "catch", ret |-> [e |-> e, thrown |-> Rethrown(e)]]
        /\ UNCHANGED <<cfgVars, expiresAt, inFlightRequest, now, ops, calls,
                       revokes, last>>

NextError ==
    \/ CatchRequestError
    \/ Tick

SpecError == Init /\ [][NextError]_vars

\* ------------------------------------------------- getCredentials alone
\* The paths getCredentials is called with: every extension of the switch,
\* JSON files lacking a member, a missing file, and extensions outside the
\* switch (another one, another case, none).
Files ==
    { <<"sa", ".json">>, <<"nomail", ".json">>, <<"nokey", ".json">>,
      <<"empty", ".json">>, <<"blank", ".json">>, <<"missing", ".json">>,
      <<"key", ".pem">>, <<"key", ".crt">>, <<"key", ".der">>,
      <<"key", ".p12">>, <<"key", ".pfx">>,
      <<"key", ".xyz">>, <<"sa", ".JSON">>, <<"key", "">> }

\* A caller awaits getCredentials(f).
GetCredentialsCall ==
    \E f \in Files :
        /\ query' = [fn |-> "getCredentials", ret |-> [f |-> f, r |-> getCredentials(f)]]
        /\ UNCHANGED <<agentVars, now, ops, calls, revokes, last>>

NextCredentials ==
    \/ GetCredentialsCall
    \/ Tick

SpecCredentials == Init /\ [][NextCredentials]_vars

\* ================================================================ claims

\* A step in which getToken call c is made.
Called(c) == calls[c].state = "idle" /\ calls'[c].state # "idle"

\* Call c has settled.
Settled(c) == calls[c].state \in {"resolved", "rejected"}

\* No token exchange is in flight.
NoExchangeInFlight == \A o \in CallIds : ops[o].phase # "request"

\* C1: N concurrent non-forced calls (the first made on an agent with nothing
\* pending and no valid cached record, the others while it is pending, no
\* forced call among them) share the run the first one began: the others
\* begin no run (no exchange, no key-file load), all settle alike, and when
\* they resolve, exactly one exchange was issued for them and each holds the
\* record that exchange returned.
C1_SingleFlight ==
    \A c1 \in CallIds :
        (/\ calls[c1].state # "idle" /\ ~calls[c1].force
         /\ calls[c1].seen = {} /\ calls[c1].cached = Undefined) =>
        /\ calls[c1].op = c1
        /\ calls[c1].state = "resolved" =>
             (ops[c1].issued /\ calls[c1].res.val = Some(c1))
        /\ \A c2 \in CallIds :
             (/\ c1 < c2 /\ c1 \in calls[c2].seen
              /\ \A k \in c1..c2 : ~calls[k].force) =>
             /\ calls[c2].op = c1
             /\ ops[c2] = NoOp
             /\ calls[c2].state = calls[c1].state
             /\ calls[c2].res = calls[c1].res

\* C1 witness: three concurrent non-forced calls on an agent configured with a
\* key file have all resolved to the record of the one exchange issued.
C1_Witness ==
    /\ \A c \in 1..3 : calls[c].state = "resolved" /\ ~calls[c].force
                       /\ calls[c].res.val = Some(1)
    /\ calls[3].seen = {1, 2}
    /\ keyFile # Undefined
    /\ NumExchanges = 1

\* C2: a non-forced call made while a token exchange of the agent is in
\* flight issues no new exchange (it awaits the pending one).
C2_NoSecondExchange ==
    [][\A c \in CallIds :
         (/\ Called(c) /\ ~calls'[c].force
          /\ \E o \in CallIds : ops[o].phase = "request") =>
         NumExchanges' = NumExchanges]_vars

\* C3: a forced call made with a key at hand issues a new exchange, whether a
\* valid record is cached or another run is pending; it leaves the other runs
\* and calls as they are; every settled call holds the result of the run it
\* awaited, a forced call awaits its own run, and a run that completed an
\* exchange resolves to that exchange's own record.
C3_ForceRefresh ==
    [][/\ \A c \in CallIds :
            (Called(c) /\ calls'[c].force /\ Truthy(key)) =>
            /\ NumExchanges' = NumExchanges + 1
            /\ ops'[c].phase = "request"
            /\ \A d \in CallIds \ {c} : ops'[d] = ops[d] /\ calls'[d] = calls[d]
       /\ \A d \in CallIds :
            /\ (calls'[d].state # "idle" /\ calls'[d].force) => calls'[d].op = d
            /\ (calls'[d].state \in {"resolved", "rejected"}) =>
                 /\ ops'[calls'[d].op].phase = "done"
                 /\ calls'[d].res = ops'[calls'[d].op].out
                 /\ (calls'[d].res.ok /\ ops'[calls'[d].op].issued) =>
                      calls'[d].res.val = Some(calls'[d].op)]_vars

\* C3 witness: call 3 was forced while the exchange of call 1 was pending with
\* call 2 awaiting it; calls 1 and 2 hold the record of exchange 1 and the
\* forced call holds the record of exchange 3.
C3_Witness ==
    /\ calls[1].state = "resolved" /\ calls[1].res.val = Some(1)
    /\ calls[2].state = "resolved" /\ calls[2].res.val = Some(1) /\ calls[2].op = 1
    /\ calls[3].state = "resolved" /\ calls[3].res.val = Some(3) /\ calls[3].force
    /\ calls[3].seen = {1, 2}

\* C4 as stated: a non-forced call made while a record is cached and not
\* expiring issues no exchange and no load and, once settled, has resolved to
\* that record - whatever else is pending.
C4_CachedReturned ==
    \A c \in CallIds :
        (calls[c].state # "idle" /\ ~calls[c].force /\ calls[c].cached # Undefined) =>
        /\ ~ops[c].issued /\ ~ops[c].loaded
        /\ Settled(c) => (calls[c].state = "resolved" /\ calls[c].res.val = calls[c].cached)

\* C4 amended: such a call issues no exchange and no load; made while the
\* in-flight handle is unset it resolves to the cached record; made while the
\* handle is set it settles with the result of the run it joined.
C4_CachedReturnedIfNoHandle ==
    \A c \in CallIds :
        (calls[c].state # "idle" /\ ~calls[c].force /\ calls[c].cached # Undefined) =>
        /\ ~ops[c].issued /\ ~ops[c].loaded
        /\ calls[c].op = c =>
             /\ ops[c].phase \in {"micro", "done"}
             /\ ops[c].out = [ok |-> TRUE, val |-> calls[c].cached, err |-> Error("")]
             /\ Settled(c) => (calls[c].state = "resolved"
                               /\ calls[c].res.val = calls[c].cached)
        /\ (calls[c].op # c /\ Settled(c)) => calls[c].res = ops[calls[c].op].out

\* C4 witness: a non-forced call made with a valid cached record and no handle
\* set, while a forced exchange was still pending, has resolved to the cached
\* record.
C4_Witness ==
    \E c \in CallIds :
        /\ calls[c].state = "resolved" /\ ~calls[c].force /\ calls[c].op = c
        /\ calls[c].cached # Undefined /\ calls[c].res.val = calls[c].cached
        /\ calls[c].seen # {}

\* C5: with no cached record hasExpired() and isTokenExpiring() answer true
\* whatever the clock and the threshold; with a cached record and
\* expiresAt = E, hasExpired() is true iff now >= E and isTokenExpiring() is
\* true iff now + t >= E, t the threshold (0 when unset); neither query
\* changes the agent.
C5_ExpiryPredicates ==
    [][query' # query =>
         LET t == IF eagerRefreshThresholdMillis = Undefined THEN 0
                  ELSE eagerRefreshThresholdMillis[1]
         IN  /\ UNCHANGED <<agentVars, now>>
             /\ query'.fn \in {"hasExpired", "isTokenExpiring"}
             /\ rawToken = Undefined => query'.ret = TRUE
             /\ (rawToken # Undefined /\ expiresAt # Undefined) =>
                  /\ query'.fn = "hasExpired" =>
                       (query'.ret <=> now >= expiresAt[1])
                  /\ query'.fn = "isTokenExpiring" =>
                       (query'.ret <=> now + t >= expiresAt[1])]_vars

\* C5 witness: isTokenExpiring() has answered false for a cached record under
\* a configured threshold, at a clock value where the record is one clock step
\* from the threshold.
C5_Witness ==
    /\ query = [fn |-> "isTokenExpiring", ret |-> FALSE]
    /\ rawToken # Undefined
    /\ eagerRefreshThresholdMillis = Some(500)
    /\ expiresAt = Some(now + 1000)

\* A step in which the exchange of run o completes.
ExchangeDone(o) == ops[o].phase = "request" /\ ops'[o].phase = "done"

\* C6: requestToken takes iat as the epoch second of the clock; a successful
\* exchange stores the response as the cached record, with
\* expiresAt = (iat + expires_in) * 1000, or no expiresAt when the response has
\* no expires_in; from then on, while that record is cached, hasExpired() and
\* isTokenExpiring() are true and a non-forced call made with no exchange in
\* flight issues a new exchange.
C6_ExpiresAt ==
    [][/\ \A o \in CallIds :
            /\ (ops[o].phase # "request" /\ ops'[o].phase = "request") =>
                 (ops'[o].iat * 1000 <= now /\ now < (ops'[o].iat + 1) * 1000)
            /\ (ExchangeDone(o) /\ ops'[o].out.ok) =>
                 /\ rawToken' # Undefined
                 /\ rawToken'[1].id = o
                 /\ ops'[o].out.val = Some(rawToken'[1].id)
                 /\ IF rawToken'[1].expires_in = Undefined
                    THEN expiresAt' = Undefined /\ hasExpired' /\ isTokenExpiring'
                    ELSE expiresAt' = Some((ops[o].iat + rawToken'[1].expires_in[1]) * 1000)
       /\ (rawToken # Undefined /\ expiresAt = Undefined) =>
            /\ hasExpired /\ isTokenExpiring
            /\ \A c \in CallIds :
                 (Called(c) /\ ~calls'[c].force /\ NoExchangeInFlight) =>
                 /\ NumExchanges' = NumExchanges + 1
                 /\ ops'[c].phase = "request"]_vars

\* C6 witness: a record without expires_in is cached and a later non-forced
\* call, made with nothing pending, has issued a new exchange instead of
\* returning it.
C6_Witness ==
    \E c \in CallIds :
        /\ rawToken # Undefined /\ rawToken[1].expires_in = Undefined
        /\ expiresAt = Undefined
        /\ rawToken[1].id < c
        /\ ~calls[c].force /\ ops[c].phase = "request" /\ calls[c].seen = {}

\* C7: expiresAt is set iff the last exchange succeeded with expires_in and
\* no revocation followed it.
C7_ExpiresAtIffLastSucceeded ==
    expiresAt # Undefined <=> last = "ok_exp"

\* C8: when an exchange fails while no other exchange is in flight, no record
\* is cached any more (accessToken undefined, hasExpired() true); and the next
\* non-forced call issues a new exchange.
C8_FailureClears ==
    [][/\ \A o \in CallIds :
            (/\ ExchangeDone(o) /\ ~ops'[o].out.ok
             /\ \A p \in CallIds \ {o} : ops[p].phase # "request") =>
            /\ rawToken' = Undefined
            /\ accessToken' = Undefined
            /\ hasExpired'
            /\ last' = "failed"
       /\ \A c \in CallIds :
            (last = "failed" /\ NoExchangeInFlight /\ Called(c) /\ ~calls'[c].force) =>
            /\ NumExchanges' = NumExchanges + 1
            /\ ops'[c].phase = "request"
            /\ calls'[c].op = c]_vars

\* C8 witness: exchange 1 cached a record, the forced exchange 2 failed while
\* that record was still valid, and the non-forced call 3 has issued a new
\* exchange.
C8_Witness ==
    /\ ops[1].phase = "done" /\ ops[1].out.ok /\ ops[1].issued
    /\ calls[2].cached # Undefined
    /\ ops[2].phase = "done" /\ ~ops[2].out.ok /\ ops[2].issued
    /\ ops[3].phase = "request" /\ ~calls[3].force /\ calls[3].seen = {}
    /\ last = "failed" /\ rawToken = Undefined

\* A step in which revokeToken call r resolves.
RevokeDone(r) == revokes[r].state = "pending" /\ revokes'[r].state = "resolved"

\* C9: when revokeToken succeeds, no record is cached any more and iss, sub,
\* key, keyFile, scope and additionalClaims hold the values they had when
\* revokeToken was called; the next getToken call, made with no exchange in
\* flight, issues a new exchange and reads no key file.
C9_RevokeKeepsConfiguration ==
    [][/\ \A r \in RevokeIds :
            RevokeDone(r) =>
            /\ rawToken' = Undefined
            /\ accessToken' = Undefined
            /\ <<iss, sub, key, keyFile, scope, additionalClaims>>' = revokes[r].cfg
            /\ <<iss, sub, key, keyFile, scope, additionalClaims>>'
                 = <<iss, sub, key, keyFile, scope, additionalClaims>>
       /\ \A c \in CallIds :
            (last = "revoked" /\ NoExchangeInFlight /\ Called(c)) =>
            /\ NumExchanges' = NumExchanges + 1
            /\ NumLoads' = NumLoads
            /\ ops'[c].phase = "request"]_vars

\* C9 witness: an agent configured with a key file (and no threshold) held
\* a record that is still unexpired by the clock, was revoked, and the
\* non-forced call 2 has issued a new exchange: it was made after the revoke,
\* for before it the record would have been served.  The key file was read
\* once, by call 1.
C9_Witness ==
    /\ revokes[1].state = "resolved" /\ last = "revoked"
    /\ keyFile # Undefined /\ Truthy(key) /\ Truthy(iss)
    /\ ops[1].loaded /\ calls[1].state = "resolved"
    /\ expiresAt # Undefined /\ now < expiresAt[1]
    /\ ~calls[2].force /\ ops[2].phase = "request" /\ calls[2].seen = {}
    /\ ~ops[2].loaded /\ NumLoads = 1
    /\ rawToken = Undefined

\* C10: revokeToken without an access token is rejected with 'No token to
\* revoke.', sends no request and changes nothing; when the revocation request
\* fails, the error reaches the caller and the cached record, expiresAt and the
\* configuration stay as they are.
C10_RevokeFailures ==
    [][\A r \in RevokeIds :
         /\ (/\ revokes[r].state = "idle" /\ revokes'[r].state # "idle"
             /\ ~Truthy(accessToken)) =>
              /\ revokes'[r].state = "rejected"
              /\ revokes'[r].err = Error("No token to revoke.")
              /\ ~revokes'[r].sent
              /\ NumRevokeRequests' = NumRevokeRequests
              /\ UNCHANGED <<agentVars, ops, calls>>
         /\ (/\ revokes[r].state = "idle" /\ revokes'[r].state # "idle"
             /\ Truthy(accessToken)) =>
              /\ revokes'[r].state = "pending" /\ revokes'[r].sent
              /\ UNCHANGED <<agentVars, ops, calls>>
         /\ (revokes[r].state = "pending" /\ revokes'[r].state = "rejected") =>
              /\ revokes'[r].err = Error("request failed")
              /\ UNCHANGED <<agentVars, ops, calls>>]_vars

\* C10 witness: the revocation request failed and the token is still held.
C10_Witness ==
    /\ revokes[1].state = "rejected" /\ revokes[1].sent
    /\ Truthy(accessToken) /\ expiresAt # Undefined

\* The names of the fixed fields of the payload.
FixedFields == {"iss", "scope", "aud", "exp", "iat", "sub"}

\* C11: the payload carries the agent's iss, scope and sub, aud = the token
\* endpoint, iat = the epoch second and exp = iat + 3600, whatever the
\* additional claims are called, and every additional claim under another name.
C11_FixedFieldsWin ==
    [][(query' # query /\ query'.fn = "payload") =>
         LET p == query'.ret
             extra == IF additionalClaims = Undefined THEN << >>
                      ELSE additionalClaims[1]
         IN  /\ p.iss = iss
             /\ p.scope = scope
             /\ p.sub = sub
             /\ p.aud = GOOGLE_TOKEN_URL
             /\ p.iat = now \div 1000
             /\ p.exp = p.iat + 3600
             /\ \A k \in DOMAIN extra \ FixedFields :
                  k \in DOMAIN p /\ p[k] = extra[k]]_vars

\* C12: a failure whose response has a body with a (non-empty) error is
\* rethrown with the message "<error>: <error_description>" when the body has a
\* (non-empty) description and "<error>" when it has none; a failure without a
\* response, without a body or without an error keeps its message; nothing else
\* of the error changes.
C12_ErrorMessage ==
    query.fn = "catch" =>
        LET e == query.ret.e
            t == query.ret.thrown
            hasBody == e.response # Undefined /\ e.response[1].data # Undefined
            data == e.response[1].data[1]
        IN  /\ t.response = e.response /\ t.code = e.code
            /\ (hasBody /\ Truthy(data.error) /\ Truthy(data.error_description))
                 => t.message = data.error[1] \o ": " \o data.error_description[1]
            /\ (hasBody /\ Truthy(data.error) /\ ~Truthy(data.error_description))
                 => t.message = data.error[1]
            /\ (~hasBody \/ ~Truthy(data.error)) => t.message = e.message

C12_Witness ==
    /\ query.fn = "catch"
    /\ query.ret.e.message = "request failed"
    /\ query.ret.thrown.message = "invalid_grant: Invalid JWT"

\* C13: getCredentials(f) is decided by the extension of f: ".json" yields the
\* file's private_key and client_email, or MISSING_CREDENTIALS when either is
\* absent or empty; ".pem", ".crt", ".der" yield the file's text as the key and
\* no client email; ".p12", ".pfx" yield the converter's output as the key and
\* no client email; any other extension fails with UNKNOWN_CERTIFICATE_TYPE
\* and reads nothing.  The call leaves the agent's state as it was.
C13_GetCredentials ==
    [][(query' # query /\ query'.fn = "getCredentials") =>
         LET f == query'.ret.f
             r == query'.ret.r
             c == FileContent(f)
         IN  /\ UNCHANGED agentVars
             /\ (f[2] = ".json" /\ c.readable) =>
                  IF Truthy(c.private_key) /\ Truthy(c.client_email)
                  THEN /\ r.ok
                       /\ r.creds = [privateKey |-> c.private_key,
                                     clientEmail |-> c.client_email]
                  ELSE ~r.ok /\ r.err.code = "MISSING_CREDENTIALS"
             /\ (f[2] \in {".pem", ".crt", ".der"} /\ c.readable) =>
                  /\ r.ok /\ r.via = "readFile"
                  /\ r.creds = [privateKey |-> c.private_key, clientEmail |-> Undefined]
             /\ (f[2] \in {".p12", ".pfx"} /\ c.readable) =>
                  /\ r.ok /\ r.via = "getPem"
                  /\ r.creds = [privateKey |-> getPem(f), clientEmail |-> Undefined]
             /\ (f[2] \notin {".json", ".pem", ".crt", ".der", ".p12", ".pfx"}) =>
                  /\ ~r.ok /\ r.err.code = "UNKNOWN_CERTIFICATE_TYPE"
                  /\ r.via = "none"]_vars

C13_Witness ==
    /\ query.fn = "getCredentials"
    /\ query.ret.f = <<"key", ".crt">>
    /\ query.ret.r.ok
    /\ query.ret.r.creds.privateKey = Some("K-crt")

\* C14: a call that begins a run needing an exchange on an agent without key
\* and keyFile is rejected with "No key or keyFile set."; a run whose key file
\* loads without a client email on an agent without iss is rejected with code
\* MISSING_CREDENTIALS.  Neither run issues an exchange, neither step changes
\* the cached record, and the calls awaiting the run get that error.
C14_PreconditionFailures ==
    [][\A c \in CallIds :
         /\ (/\ Called(c) /\ calls'[c].op = c
             /\ ~UseCached(calls'[c].force)
             /\ ~Truthy(key) /\ keyFile = Undefined) =>
                /\ ops'[c].phase = "micro"
                /\ ops'[c].out = Rejected(Error("No key or keyFile set."))
                /\ ~ops'[c].issued /\ ~ops'[c].loaded
                /\ UNCHANGED tokVars
         /\ (ops[c].phase = "micro" /\ ops'[c].phase # "micro") =>
                /\ ops'[c].phase = "done" /\ ops'[c].out = ops[c].out
                /\ ~ops'[c].issued
                /\ UNCHANGED tokVars
                /\ \A d \in CallIds :
                     (calls[d].state = "pending" /\ calls[d].op = c) =>
                         (Settled(d)' /\ calls'[d].res = ops[c].out)
         /\ (/\ ops[c].phase = "creds" /\ ops'[c].phase # "creds"
             /\ getCredentials(ops[c].file[1]).ok
             /\ ~Truthy(getCredentials(ops[c].file[1]).creds.clientEmail)
             /\ ~Truthy(iss)) =>
                /\ ops'[c].phase = "done"
                /\ ~ops'[c].out.ok
                /\ ops'[c].out.err.code = "MISSING_CREDENTIALS"
                /\ ~ops'[c].issued
                /\ NumExchanges' = NumExchanges
                /\ UNCHANGED tokVars
                /\ \A d \in CallIds :
                     (calls[d].state = "pending" /\ calls[d].op = c) =>
                         (calls'[d].state = "rejected" /\ calls'[d].res = ops'[c].out)
      ]_vars

C14_Witness ==
    /\ keyFile = Some(<<"key", ".pem">>) /\ ~Truthy(iss)
    /\ calls[1].state = "rejected"
    /\ calls[1].res.err.code = "MISSING_CREDENTIALS"
    /\ ops[1].loaded /\ ~ops[1].issued
    /\ NumExchanges = 0
    /\ rawToken = Undefined

\* The runs that have begun and not completed, and the forced calls made.
InFlight == {o \in CallIds : Pending(o)}

ForcedCalls == {c \in CallIds : calls[c].state # "idle" /\ calls[c].force}

\* C15 as stated: at no instant are two exchanges awaiting the token endpoint.
C15_AtMostOneExchange ==
    Cardinality({o \in CallIds : ops[o].phase = "request"}) <= 1

\* C15: the runs in flight never outnumber the forced calls made by more than
\* one; with no forced call made, at most one run is in flight.
C15_OneMorePerForcedCall ==
    Cardinality(InFlight) <= 1 + Cardinality(ForcedCalls)

C15_Witness ==
    /\ calls[1].state = "pending" /\ ~calls[1].force /\ calls[1].op = 1
    /\ calls[2].state = "pending" /\ calls[2].force /\ calls[2].op = 2
    /\ calls[3].state = "pending" /\ ~calls[3].force /\ calls[3].op = 2
    /\ ops[1].phase = "request" /\ ops[2].phase = "request"
    /\ InFlight = {1, 2}

\* C16: whenever a run sends its request to the token endpoint, iss is a
\* non-empty string, and so is the iss of the assertion it sends.
C16_IssuerSet ==
    [][\A o \in CallIds :
         (ops[o].phase # "request" /\ ops'[o].phase = "request") =>
             (Truthy(iss') /\ Truthy(ops'[o].payload[1].iss))]_vars

\* The runs that are reading the key file.
Loading == {o \in CallIds : ops[o].phase = "creds"}

\* C17: on an agent configured with keyFile, a run starts reading the key file
\* only while key is unset, a completed read populates key only if key is
\* still unset, and no two reads are in progress at once.
C17_KeyLoadedOnce ==
    [][keyFile # Undefined =>
         /\ \A o \in CallIds :
              /\ (o \in Loading' \ Loading) => ~Truthy(key)
              /\ (o \in Loading \ Loading' /\ getCredentials(ops[o].file[1]).ok)
                     => ~Truthy(key)
         /\ Cardinality(Loading') <= 1]_vars

\* C18: when a run completes with an error, every call awaiting it is rejected
\* with that error and the step issues no exchange and no key-file load; a call
\* that joins a run joins one that has not completed; and whenever no call is
\* pending the handle is unset.
C18_FailurePropagates ==
    [][/\ \A o \in CallIds :
            (Pending(o) /\ ops'[o].phase = "done" /\ ~ops'[o].out.ok) =>
                /\ \A d \in CallIds :
                     (calls[d].state = "pending" /\ calls[d].op = o) =>
                         (calls'[d].state = "rejected" /\ calls'[d].res = ops'[o].out)
                /\ NumExchanges' = NumExchanges
                /\ NumLoads' = NumLoads
                /\ \A p \in CallIds \ {o} : ops'[p] = ops[p]
       /\ \A c \in CallIds :
            (Called(c) /\ calls'[c].op # c) =>
                (calls'[c].op \in InFlight /\ calls'[c].op \in InFlight')
       /\ (\A c \in CallIds : calls'[c].state # "pending") =>
                inFlightRequest' = Undefined]_vars

C18_Witness ==
    /\ calls[1].state = "rejected" /\ calls[1].op = 1
    /\ calls[2].state = "rejected" /\ calls[2].op = 1
    /\ calls[1].res.err.message = "invalid_grant: Invalid JWT"
    /\ calls[2].res = calls[1].res
    /\ calls[3].state = "pending" /\ calls[3].op = 3 /\ ~calls[3].force
    /\ calls[3].seen = {}
    /\ NumExchanges = 2

\* C19: each exchange that completes decides the cached record by itself,
\* whatever other exchanges began or completed before it: the record is its
\* response if it succeeded and absent if it failed; between completions only
\* a successful revokeToken changes the record.  So after overlapping
\* exchanges the record is that of the one that completed last.
C19_LastCompletedWins ==
    [][/\ \A o \in CallIds :
            ExchangeDone(o) =>
                IF ops'[o].out.ok
                THEN /\ rawToken' # Undefined
                     /\ rawToken'[1].id = o
                     /\ ops'[o].out.val = Some(o)
                ELSE rawToken' = Undefined
       /\ rawToken' # rawToken =>
            \/ \E o \in CallIds : ExchangeDone(o)
            \/ \E r \in RevokeIds : RevokeDone(r)]_vars

\* Run 2, begun after run 1, succeeded and stored its record; run 1 then failed.
C19_Witness ==
    /\ calls[1].state = "rejected" /\ calls[1].op = 1 /\ ops[1].issued
    /\ calls[2].state = "resolved" /\ calls[2].op = 2 /\ calls[2].force
    /\ calls[2].seen = {1}
    /\ calls[2].res.val = Some(2)
    /\ calls[3].state = "idle"
    /\ \A r \in RevokeIds : revokes[r].state = "idle"
    /\ last = "failed"
    /\ rawToken = Undefined

\* A revokeToken call has resolved.
Revoked == \E r \in RevokeIds : revokes[r].state = "resolved"

\* The cached record is fresh by the clock alone (threshold 0).
FreshNow == rawToken # Undefined /\ TruthyNum(expiresAt) /\ now < expiresAt[1]

\* C20: a revokeToken that resolves leaves eagerRefreshThresholdMillis unset,
\* and no other step changes it; from then on isTokenExpiring() compares
\* expiresAt with the clock alone, and a non-forced call that begins a run
\* while the record is fresh by the clock is served from the cache.
C20_RevokeResetsThreshold ==
    [][/\ \A r \in RevokeIds :
            RevokeDone(r) => eagerRefreshThresholdMillis' = Undefined
       /\ eagerRefreshThresholdMillis' # eagerRefreshThresholdMillis =>
            \E r \in RevokeIds : RevokeDone(r)
       /\ Revoked =>
            /\ eagerRefreshThresholdMillis = Undefined
            /\ isTokenExpiring = ~FreshNow
            /\ \A c \in CallIds :
                 (Called(c) /\ calls'[c].op = c /\ ~calls'[c].force /\ FreshNow) =>
                     /\ ops'[c].phase = "micro"
                     /\ ops'[c].out = Resolved(rawToken[1])]_vars

\* An agent constructed with threshold 1000 was revoked, got a record expiring
\* at 3000, and at 2500 serves a non-forced call from the cache.
C20_Witness ==
    /\ Revoked
    /\ eagerRefreshThresholdMillis = Undefined
    /\ scope = Some("s1") /\ additionalClaims = Undefined
    /\ now = 2500 /\ expiresAt = Some(3000)
    /\ rawToken # Undefined /\ rawToken[1].id = 2
    /\ calls[3].state # "idle" /\ ~calls[3].force /\ calls[3].op = 3
    /\ calls[3].cached = Some(2)
    /\ ~ops[3].issued
    /\ NumExchanges = 2

=============================================================================
